---- MODULE Spec2Model ----
(***************************************************************************)
(* Model of the Nabto client wrapper (src/nabto.py) and of the Pichler     *)
(* device accessor built on it (src/pichler.py).                           *)
(*                                                                         *)
(* Three specifications share the definitions below:                       *)
(*   Spec        the accessor: Pichler.__init__ and the teardown of the    *)
(*               Client it creates;                                        *)
(*   SpecClient  the communication client used on its own: Client,         *)
(*               Client.Session and their finalizers;                      *)
(*   SpecReads   the accessor's request/response functions applied to      *)
(*               inputs drawn from bounded sets.                           *)
(*                                                                         *)
(* Python strings are sequences of one-character strings; Python values    *)
(* (lists, dicts, ints, raised exceptions) are tagged records.             *)
(***************************************************************************)
EXTENDS Integers, Sequences, FiniteSets, TLC

VARIABLES
    startups,    \* number of nabtoStartup calls made in the process
    shutdowns,   \* number of nabtoShutdown calls made in the process
    client,      \* Client objects: slot -> [st, owner]
    sess,        \* Client.Session objects: slot -> record
    lastOpen,    \* native calls made by the last Client.Session.__init__
    acc,         \* the Pichler object of the last construction
    rd           \* SpecReads: inputs and results of the accessor's functions

vars == <<startups, shutdowns, client, sess, lastOpen, acc, rd>>

(***************************************************************************)
(* Bounds                                                                  *)
(***************************************************************************)
MaxClients == 2
MaxSessions == 2
MaxList == 2

(***************************************************************************)
(* Strings                                                                 *)
(***************************************************************************)
\* Python's None and a missing configuration entry: one-element sequences
\* whose element is no character, so that they compare with strings.
NoneVal == <<"<None>">>
Absent == <<"<absent>">>

\* device identifiers the model draws from: '', 'a', '.', 'a.b'
DeviceIds == {<<>>, <<"a">>, <<".">>, <<"a", ".", "b">>}

\* '.remote.lscontrol.dk'
DomainSuffix ==
    <<".", "r", "e", "m", "o", "t", "e", ".", "l", "s", "c", "o", "n", "t",
      "r", "o", "l", ".", "d", "k">>

\* '.' in device
HasDot(s) == \E i \in 1..Len(s) : s[i] = "."

\* 'not x' for an argument that is None or a string
Falsy(x) == x = NoneVal \/ x = <<>>

(***************************************************************************)
(* Python values                                                           *)
(***************************************************************************)
Null == [t |-> "null"]
PyInt(n) == [t |-> "int", n |-> n]
PyList(items) == [t |-> "list", items |-> items]
Raise(e) == [t |-> "raise", exc |-> e]
EmptyList == PyList(<<>>)

\* the dicts the model draws from; keys lists the keys a dict holds
EmptyDict == [t |-> "dict", keys |-> {}]
ErrorDict == [t |-> "dict", keys |-> {"error"}, error |-> PyInt(1)]
PongDict == [t |-> "dict", keys |-> {"pong"}, pong |-> PyInt(1885957735)]
AddressDict == [t |-> "dict", keys |-> {"address"}, address |-> PyInt(1)]
ValueDict(v) == [t |-> "dict", keys |-> {"value"}, value |-> v]
DataDict(items) == [t |-> "dict", keys |-> {"data"}, data |-> PyList(items)]
ResponseDict(resp) == [t |-> "dict", keys |-> {"response"}, response |-> resp]

IsRaise(v) == v.t = "raise"

\* bool(v)
Truthy(v) ==
    CASE v.t = "list" -> v.items # <<>>
      [] v.t = "dict" -> v.keys # {}
      [] v.t = "int" -> v.n # 0
      [] OTHER -> FALSE

\* v[k] for a string key k
GetItem(v, k) ==
    IF v.t # "dict" THEN Raise("TypeError")
    ELSE IF k \notin v.keys THEN Raise("KeyError")
    ELSE v[k]

\* a char* the native layer hands back: NULL, or a buffer holding a JSON
\* document (doc) or text that is no JSON
NullPtr == [t |-> "NULL"]
Buffer(doc) == [t |-> "buffer", json |-> TRUE, doc |-> doc]
GarbageBuffer == [t |-> "buffer", json |-> FALSE, doc |-> Null]

\* json.loads / json.dumps
JsonLoads(b) == IF b.json THEN b.doc ELSE Raise("JSONDecodeError")
JsonDumps(v) == [t |-> "str", json |-> TRUE, doc |-> v]

(***************************************************************************)
(* src/nabto.py: Session.rpc_invoke, lines 147-155, for the char* the      *)
(* native nabtoRpcInvoke leaves in out                                     *)
(***************************************************************************)
SessionRpcInvoke(out) ==
    IF out # NullPtr
    THEN [result |-> JsonLoads(out), frees |-> 1]
    ELSE [result |-> EmptyList, frees |-> 0]

(***************************************************************************)
(* src/nabto.py: the names the classes define                              *)
(***************************************************************************)
ClientAttrs == {"__init__", "__del__", "get_local_devices", "CreateProfile", "open_session"}

SessionAttrs == {"__init__", "__del__", "rpc_set_default_interface", "rpc_invoke"}

\* nabto status codes the model draws from: success, a failure, "no profile"
StatusOk == 0
NoProfile == 5
Statuses == {StatusOk, 1, NoProfile}

(***************************************************************************)
(* Client.Session.__init__: the native calls it makes and the status it    *)
(* ends with, for the statuses the native layer returns to the first       *)
(* nabtoOpenSession (st1), to nabtoCreateProfile (stc) and to the second   *)
(* nabtoOpenSession (st2).                                                 *)
(***************************************************************************)
SessionInitRetryAnyFailure(st1, stc, st2) ==
    IF st1 # StatusOk
    THEN [calls |-> <<"open", "create", "open">>, first |-> st1, status |-> st2]
    ELSE [calls |-> <<"open">>, first |-> st1, status |-> st1]

SessionInit(st1, stc, st2) ==
    IF st1 = NoProfile
    THEN [calls |-> <<"open", "create", "open">>, first |-> st1, status |-> st2]
    ELSE [calls |-> <<"open">>, first |-> st1, status |-> st1]

NoSession == [st |-> "none", owner |-> 0, bound |-> FALSE, late |-> FALSE]

NoClient == [st |-> "none", owner |-> "none"]

Clients == 1..MaxClients
Sessions == 1..MaxSessions

FreeClients == {c \in Clients : client[c].st = "none"}
FreeSessions == {s \in Sessions : sess[s].st = "none"}

\* the next object gets the lowest free slot
NewClient == CHOOSE c \in FreeClients : \A d \in FreeClients : c <= d
NewSession == CHOOSE s \in FreeSessions : \A t \in FreeSessions : s <= t

\* the process-wide native state has been shut down by the session's client
ShutDown(s) == client[sess[s].owner].st = "dead"

(***************************************************************************)
(* src/pichler.py: Pichler.__init__                                        *)
(***************************************************************************)
Fields == {"device", "user", "pass"}

\* lines 43-52: the identity, the configuration entries read, and the
\* configparser error of the first missing entry
ResolveIdentityReadAll(device, user, passwd, cfg) ==
    LET fileRead == Falsy(device) \/ Falsy(user) \/ Falsy(passwd)
        failed(rs) == [exc |-> "configparser.Error", fileRead |-> fileRead, reads |-> rs,
                       device |-> NoneVal, user |-> NoneVal, passwd |-> NoneVal]
    IN  IF ~fileRead
        THEN [exc |-> "none", fileRead |-> FALSE, reads |-> {},
              device |-> device, user |-> user, passwd |-> passwd]
        ELSE IF cfg["device"] = Absent THEN failed({"device"})
        ELSE IF cfg["user"] = Absent THEN failed({"device", "user"})
        ELSE IF cfg["pass"] = Absent THEN failed(Fields)
        ELSE [exc |-> "none", fileRead |-> TRUE, reads |-> Fields,
              device |-> cfg["device"], user |-> cfg["user"], passwd |-> cfg["pass"]]

ResolveIdentity(device, user, passwd, cfg) ==
    LET fileRead == Falsy(device) \/ Falsy(user) \/ Falsy(passwd)
        failed(rs) == [exc |-> "configparser.Error", fileRead |-> fileRead, reads |-> rs,
                       device |-> NoneVal, user |-> NoneVal, passwd |-> NoneVal]
        r1 == IF Falsy(device) THEN {"device"} ELSE {}
        d1 == IF Falsy(device) THEN cfg["device"] ELSE device
        r2 == IF Falsy(user) THEN r1 \cup {"user"} ELSE r1
        u1 == IF Falsy(user) THEN cfg["user"] ELSE user
        r3 == IF Falsy(passwd) THEN r2 \cup {"pass"} ELSE r2
        p1 == IF Falsy(passwd) THEN cfg["pass"] ELSE passwd
    IN  IF d1 = Absent THEN failed(r1)
        ELSE IF u1 = Absent THEN failed(r2)
        ELSE IF p1 = Absent THEN failed(r3)
        ELSE [exc |-> "none", fileRead |-> fileRead, reads |-> r3,
              device |-> d1, user |-> u1, passwd |-> p1]

\* lines 54-55
NormalizeDeviceAlways(device) == device \o DomainSuffix

NormalizeDevice(device) ==
    IF ~HasDot(device) THEN device \o DomainSuffix ELSE device

NoAccessor ==
    [st |-> "none", falsy |-> {}, absent |-> {}, fileRead |-> FALSE, reads |-> {}, resolved |-> NoneVal,
     device |-> NoneVal, client |-> 0, session |-> 0, bound |-> FALSE]

(***************************************************************************)
(* Initial state                                                           *)
(***************************************************************************)
NoCall == [calls |-> <<>>, first |-> StatusOk, status |-> StatusOk]

NoRead == [op |-> "none"]

InitSystem ==
    /\ startups = 0
    /\ shutdowns = 0
    /\ client = [c \in Clients |-> NoClient]
    /\ sess = [s \in Sessions |-> NoSession]
    /\ lastOpen = NoCall
    /\ acc = NoAccessor

Init ==
    /\ InitSystem
    /\ rd = NoRead

(***************************************************************************)
(* Client                                                                  *)
(***************************************************************************)
\* nabto.Client(home), lines 19-33
ClientInit ==
    /\ FreeClients # {}
    /\ client' = [client EXCEPT ![NewClient] = [st |-> "live", owner |-> "user"]]
    /\ startups' = startups + 1
    /\ UNCHANGED <<shutdowns, sess, lastOpen, acc, rd>>

\* Client.__del__, lines 35-37: runs when the last reference to the Client
\* goes.  A Session refers to the loaded library, not to the Client, so open
\* sessions do not keep their Client alive; a Pichler object does.
ClientDel(c) ==
    /\ client[c].st = "live"
    /\ ~(acc.st = "ready" /\ acc.client = c)
    /\ client' = [client EXCEPT ![c].st = "dead"]
    /\ shutdowns' = shutdowns + 1
    /\ UNCHANGED <<startups, sess, lastOpen, acc, rd>>

\* Client.open_session, lines 76-92, and Client.Session.__init__, 98-114
OpenSession(c, st1, stc, st2) ==
    /\ client[c].st = "live"
    /\ client[c].owner = "user"
    /\ FreeSessions # {}
    /\ LET r == SessionInit(st1, stc, st2)
       IN  /\ sess' = [sess EXCEPT ![NewSession] =
                          [st |-> "open", owner |-> c, bound |-> FALSE, late |-> FALSE]]
           /\ lastOpen' = r
    /\ UNCHANGED <<startups, shutdowns, client, acc, rd>>

\* Session.rpc_set_default_interface, lines 119-131
SetDefaultInterface(s, status) ==
    /\ sess[s].st = "open"
    /\ sess' = [sess EXCEPT ![s].bound = (status = StatusOk) \/ @,
                            ![s].late = @ \/ ShutDown(s)]
    /\ UNCHANGED <<startups, shutdowns, client, lastOpen, acc, rd>>

\* Session.rpc_invoke, lines 133-155: the native call is made whatever the
\* state of the handle and of the library; what it returns to the caller is
\* SessionRpcInvoke
Invoke(s) ==
    /\ sess[s].st = "open"
    /\ sess' = [sess EXCEPT ![s].late = @ \/ ShutDown(s)]
    /\ UNCHANGED <<startups, shutdowns, client, lastOpen, acc, rd>>

\* Session.__del__, lines 116-117: runs when the last reference goes
SessionDel(s) ==
    /\ sess[s].st = "open"
    /\ sess' = [sess EXCEPT ![s].st = "closed", ![s].late = @ \/ ShutDown(s)]
    /\ UNCHANGED <<startups, shutdowns, client, lastOpen, acc, rd>>

NextClient ==
    \/ ClientInit
    \/ \E c \in Clients : ClientDel(c)
    \/ \E c \in Clients, st1, stc, st2 \in Statuses : OpenSession(c, st1, stc, st2)
    \/ \E s \in Sessions, status \in Statuses : SetDefaultInterface(s, status)
    \/ \E s \in Sessions : Invoke(s)
    \/ \E s \in Sessions : SessionDel(s)

SpecClient == Init /\ [][NextClient]_vars

(***************************************************************************)
(* Pichler                                                                 *)
(***************************************************************************)
\* the contents of pichler.ini the model draws from
Configs ==
    [device : {Absent, <<"c">>, <<"c", ".", "d">>},
     user : {Absent, <<"u">>},
     pass : {Absent, <<"p">>}]

DeviceArgs == DeviceIds \cup {NoneVal}
UserArgs == {NoneVal, <<>>, <<"u">>}
PasswdArgs == {NoneVal, <<"p">>}

\* Pichler(device, user, passwd), lines 41-64.  The attribute lookups of
\* lines 59 and 64 are resolved against the names nabto.py defines; a name
\* that is not defined raises AttributeError and ends the construction.
Construct(device, user, passwd, cfg) ==
    /\ LET id == ResolveIdentity(device, user, passwd, cfg)
           args == [device |-> device, user |-> user, pass |-> passwd]
           base == [NoAccessor EXCEPT
                       !.falsy = {f \in Fields : Falsy(args[f])},
                       !.absent = {f \in Fields : cfg[f] = Absent},
                       !.fileRead = id.fileRead,
                       !.reads = id.reads]
       IN  IF id.exc # "none"
           THEN /\ acc' = [base EXCEPT !.st = id.exc]
                /\ UNCHANGED <<startups, client, sess, lastOpen>>
           ELSE /\ FreeClients # {}
                /\ startups' = startups + 1
                /\ client' = [client EXCEPT ![NewClient] =
                                 [st |-> "live", owner |-> "accessor"]]
                /\ LET stored == [base EXCEPT !.resolved = id.device,
                                              !.device = NormalizeDevice(id.device),
                                              !.client = NewClient]
                   IN  IF "OpenSession" \notin ClientAttrs
                       THEN /\ acc' = [stored EXCEPT !.st = "AttributeError"]
                            /\ UNCHANGED <<sess, lastOpen>>
                       ELSE /\ FreeSessions # {}
                            /\ \E st1, stc, st2, sti \in Statuses :
                                 LET r == SessionInit(st1, stc, st2)
                                     found == "RpcSetDefaultInterface" \in SessionAttrs
                                 IN  /\ lastOpen' = r
                                     /\ sess' = [sess EXCEPT ![NewSession] =
                                           [st |-> "open", owner |-> NewClient,
                                            bound |-> found /\ sti = StatusOk,
                                            late |-> FALSE]]
                                     /\ acc' = [stored EXCEPT
                                           !.st = IF found THEN "ready" ELSE "AttributeError",
                                           !.session = NewSession,
                                           !.bound = found /\ sti = StatusOk]
    /\ UNCHANGED <<shutdowns, rd>>

Next ==
    \/ \E device \in DeviceArgs, user \in UserArgs, passwd \in PasswdArgs, cfg \in Configs :
          Construct(device, user, passwd, cfg)
    \/ \E c \in Clients : ClientDel(c)

Spec == Init /\ [][Next]_vars

(***************************************************************************)
(* src/pichler.py: the request/response functions                          *)
(***************************************************************************)
NoUrl == [scheme |-> "none"]

\* 'nabto://%s/%s.json?%s' % (self.device, command, params)
RpcUrl(device, command, params) ==
    [scheme |-> "nabto", device |-> device, command |-> command, params |-> params]

\* Pichler.RpcInvoke, lines 84-87.  attrs are the names self.session
\* defines; out is the char* the native layer returns if the call reaches it.
\* The attribute lookup comes first: without the name nothing is sent.
RpcInvoke(attrs, device, command, params, out) ==
    IF "RpcInvoke" \notin attrs
    THEN [url |-> NoUrl, ret |-> Raise("AttributeError"), frees |-> 0,
          response |-> Raise("AttributeError")]
    ELSE LET s == SessionRpcInvoke(out)
             r == s.result
         IN  [url |-> RpcUrl(device, command, params), ret |-> r, frees |-> s.frees,
              response |-> IF IsRaise(r) THEN r
                           ELSE IF Truthy(r) THEN GetItem(r, "response")
                           ELSE EmptyList]

\* [i['value'] for i in data]: the first item that raises ends it
ValuesOf(data) ==
    IF data.t # "list" THEN Raise("TypeError")
    ELSE LET vs == [i \in 1..Len(data.items) |-> GetItem(data.items[i], "value")]
             bad == {i \in 1..Len(vs) : IsRaise(vs[i])}
         IN  IF bad = {} THEN PyList(vs)
             ELSE vs[CHOOSE i \in bad : \A j \in bad : i <= j]

\* lines 119-121, 158-160, 181-183, 220-222
ValuesOfReversed(response) ==
    LET vs == ValuesOf(GetItem(response, "data"))
    IN  IF IsRaise(response) THEN response
        ELSE IF ~Truthy(response) THEN EmptyList
        ELSE IF IsRaise(vs) THEN vs
        ELSE PyList([i \in 1..Len(vs.items) |-> vs.items[Len(vs.items) + 1 - i]])

ResponseValues(response) ==
    IF IsRaise(response) THEN response
    ELSE IF Truthy(response) THEN
        LET data == GetItem(response, "data")
        IN  IF IsRaise(data) THEN data ELSE ValuesOf(data)
    ELSE EmptyList

\* lines 139 and 201: values[0]
FirstOrZero(values) ==
    IF IsRaise(values) THEN values
    ELSE IF values.items = <<>> THEN PyInt(0)
    ELSE values.items[1]

First(values) ==
    IF IsRaise(values) THEN values
    ELSE IF values.items = <<>> THEN Raise("IndexError")
    ELSE values.items[1]

\* an element of lst: a tuple (address, obj) or a bare address
Pair(a, o) == [t |-> "tuple", a |-> a, o |-> o]
Bare(a) == [t |-> "int", a |-> a]

\* lines 155-156 and 217-218
ListRequestObjOne(lst) ==
    [request |-> [list |-> [i \in 1..Len(lst) |->
        IF lst[i].t = "tuple" THEN [address |-> lst[i].a, obj |-> lst[i].o]
        ELSE [address |-> lst[i].a, obj |-> 1]]]]

ListRequest(lst) ==
    [request |-> [list |-> [i \in 1..Len(lst) |->
        IF lst[i].t = "tuple" THEN [address |-> lst[i].a, obj |-> lst[i].o]
        ELSE [address |-> lst[i].a, obj |-> 0]]]]

(***************************************************************************)
(* SpecReads: the accessor's functions applied to drawn inputs.  An        *)
(* initial state fixes the session object the accessor holds (the names    *)
(* it defines), the accessor's device id and the char* the native layer    *)
(* would return; each action applies one function of pichler.py.           *)
(***************************************************************************)
\* the names pichler.py looks up on self.session (lines 64 and 84)
PichlerSessionNames == {"RpcSetDefaultInterface", "RpcInvoke"}

Values == {PyInt(10), PyInt(11)}

\* lists of at most n elements of S
ListsUpTo(S, n) == UNION {[1..k -> S] : k \in 0..n}

Documents ==
    {EmptyList, EmptyDict, ErrorDict, ResponseDict(EmptyDict), ResponseDict(PongDict),
     ResponseDict(DataDict(<<AddressDict>>))}
    \cup {ResponseDict(DataDict(items)) :
            items \in ListsUpTo({ValueDict(v) : v \in Values}, MaxList)}

Outs == {NullPtr, GarbageBuffer} \cup {Buffer(d) : d \in Documents}

ListItems == {Pair(1, 0), Pair(1, 1), Bare(2)}

\* a device that answers a list request entry by entry, in order, with the
\* value it holds at (address, obj)
Mem(address, obj) == PyInt(10 * address + obj)

DeviceListAnswer(params) ==
    LET l == JsonLoads(params.json).request.list
    IN  Buffer(ResponseDict(DataDict(
            [i \in 1..Len(l) |-> ValueDict(Mem(l[i].address, l[i].obj))])))

NoResult ==
    [url |-> NoUrl, ret |-> Null, frees |-> 0, response |-> Null,
     values |-> Null, value |-> Null]

InitReads ==
    /\ InitSystem
    /\ \E attrs \in {SessionAttrs, PichlerSessionNames}, id \in DeviceIds, out \in Outs :
          rd = [op |-> "none", attrs |-> attrs, device |-> NormalizeDevice(id),
                resolved |-> id, out |-> out, lst |-> <<>>, echo |-> FALSE,
                res |-> NoResult]

Finish(op, out, lst, echo, res) ==
    /\ rd.op = "none"
    /\ rd' = [rd EXCEPT !.op = op, !.out = out, !.lst = lst, !.echo = echo, !.res = res]
    /\ UNCHANGED <<startups, shutdowns, client, sess, lastOpen, acc>>

\* Session.rpc_invoke called on its own
CallSessionRpcInvoke ==
    LET s == SessionRpcInvoke(rd.out)
    IN  Finish("rpc_invoke", rd.out, <<>>, FALSE,
               [NoResult EXCEPT !.ret = s.result, !.frees = s.frees])

\* Pichler.Ping, line 98
Ping ==
    LET r == RpcInvoke(rd.attrs, rd.device, "ping", [ping |-> 1885957735], rd.out)
    IN  Finish("Ping", rd.out, <<>>, FALSE,
               [NoResult EXCEPT !.url = r.url, !.ret = r.ret, !.frees = r.frees,
                                !.response = r.response])

\* DatapointRawReadValues / SetpointRawReadValues, lines 118-121, 180-183
RawReadValues(command, address, obj, length) ==
    LET r == RpcInvoke(rd.attrs, rd.device, command,
                       [address |-> address, obj |-> obj, length |-> length], rd.out)
    IN  [NoResult EXCEPT !.url = r.url, !.ret = r.ret, !.frees = r.frees,
                         !.response = r.response,
                         !.values = ResponseValues(r.response)]

DatapointRawReadValues(address, obj, length) ==
    Finish("DatapointRawReadValues", rd.out, <<>>, FALSE,
           RawReadValues("datapointReadValue", address, obj, length))

SetpointRawReadValues(address, obj, length) ==
    Finish("SetpointRawReadValues", rd.out, <<>>, FALSE,
           RawReadValues("setpointReadValue", address, obj, length))

\* DatapointRawReadValue / SetpointRawReadValue, lines 139 and 201
DatapointRawReadValue(address, obj) ==
    LET r == RawReadValues("datapointReadValue", address, obj, 1)
    IN  Finish("DatapointRawReadValue", rd.out, <<>>, FALSE,
               [r EXCEPT !.value = First(r.values)])

SetpointRawReadValue(address, obj) ==
    LET r == RawReadValues("setpointReadValue", address, obj, 1)
    IN  Finish("SetpointRawReadValue", rd.out, <<>>, FALSE,
               [r EXCEPT !.value = First(r.values)])

\* DatapointRawReadListValues / SetpointRawReadListValues, lines 155-160 and
\* 217-222.  With echo the native layer's answer is the device's answer to
\* the request sent, otherwise it is the drawn one.
RawReadListValues(op, command, lst, echo) ==
    LET params == [json |-> JsonDumps(ListRequest(lst))]
        out == IF echo THEN DeviceListAnswer(params) ELSE rd.out
        r == RpcInvoke(rd.attrs, rd.device, command, params, out)
    IN  Finish(op, out, lst, echo,
               [NoResult EXCEPT !.url = r.url, !.ret = r.ret, !.frees = r.frees,
                                !.response = r.response,
                                !.values = ResponseValues(r.response)])

DatapointRawReadListValues(lst, echo) ==
    RawReadListValues("DatapointRawReadListValues", "datapointReadListValue", lst, echo)

SetpointRawReadListValues(lst, echo) ==
    RawReadListValues("SetpointRawReadListValues", "setpointReadListValue", lst, echo)

Addresses == {1, 2}
Objs == {0, 1}

NextReads ==
    \/ CallSessionRpcInvoke
    \/ Ping
    \/ \E a \in Addresses, o \in Objs, n \in 1..MaxList : DatapointRawReadValues(a, o, n)
    \/ \E a \in Addresses, o \in Objs, n \in 1..MaxList : SetpointRawReadValues(a, o, n)
    \/ \E a \in Addresses, o \in Objs : DatapointRawReadValue(a, o)
    \/ \E a \in Addresses, o \in Objs : SetpointRawReadValue(a, o)
    \/ \E lst \in ListsUpTo(ListItems, MaxList), echo \in BOOLEAN :
          DatapointRawReadListValues(lst, echo)
    \/ \E lst \in ListsUpTo(ListItems, MaxList), echo \in BOOLEAN :
          SetpointRawReadListValues(lst, echo)

SpecReads == InitReads /\ [][NextReads]_vars

(***************************************************************************)
(* Properties                                                              *)
(***************************************************************************)
Count(seq, x) == Cardinality({i \in 1..Len(seq) : seq[i] = x})

\* C1: a call of Client.open_session whose first nabtoOpenSession returns
\* status 5 makes exactly the native calls open, create profile, open, in
\* that order; with any other first status it makes the one open call only.
\* No call makes more than two opens or more than one profile creation.
C1_SingleProfileRetry ==
    lastOpen.calls # <<>> =>
        /\ lastOpen.first = NoProfile => lastOpen.calls = <<"open", "create", "open">>
        /\ lastOpen.first # NoProfile => lastOpen.calls = <<"open">>
        /\ Count(lastOpen.calls, "open") <= 2
        /\ Count(lastOpen.calls, "create") <= 1

\* the retried open returned "no profile" again and was not retried
C1_Witness ==
    /\ lastOpen.first = NoProfile
    /\ lastOpen.status = NoProfile
    /\ lastOpen.calls = <<"open", "create", "open">>

\* C2: once a session is closed or its client is shut down, no operation on
\* the session reaches the native layer.
C2_NoNativeCallAfterShutdown ==
    \A s \in Sessions : ~sess[s].late

\* C3: nabtoShutdown is called only after every session opened through the
\* client has been closed.
C3_ShutdownAfterSessionsClosed ==
    \A c \in Clients : client[c].st = "dead" =>
        \A s \in Sessions : sess[s].st # "none" /\ sess[s].owner = c => sess[s].st = "closed"

Order(f) == CASE f = "device" -> 1 [] f = "user" -> 2 [] f = "pass" -> 3

Constructed == acc.st # "none"
Resolved == acc.st \notin {"none", "configparser.Error"}

\* C4 as stated: a field is read from the configuration if and only if it was
\* omitted (None or empty), and an omitted field absent from the configuration
\* fails the construction.
C4_ReadIffOmitted ==
    Constructed =>
        /\ \A f \in Fields : f \in acc.reads <=> f \in acc.falsy
        /\ acc.falsy \cap acc.absent # {} => acc.st = "configparser.Error"

\* C4 as amended: a field is read from the configuration only if it was
\* omitted or given empty; the file is read if and only if there is such a
\* field; the fields are looked up in the order device, user, pass, and the
\* construction fails with configparser's error at the first such field the
\* configuration lacks, the later ones not being read; otherwise every such
\* field is read.
C4_ReadMissingInOrder ==
    Constructed =>
        LET missing == acc.falsy \cap acc.absent
        IN  /\ acc.reads \subseteq acc.falsy
            /\ acc.fileRead <=> acc.falsy # {}
            /\ acc.st = "configparser.Error" <=> missing # {}
            /\ missing = {} => acc.reads = acc.falsy
            /\ missing # {} =>
                  \E m \in missing :
                      /\ \A f \in missing : Order(m) <= Order(f)
                      /\ acc.reads = {f \in acc.falsy : Order(f) <= Order(m)}

\* the device entry is missing and the omitted user is never looked up
C4_Witness ==
    /\ acc.st = "configparser.Error"
    /\ "device" \in acc.reads
    /\ "user" \in acc.falsy
    /\ "user" \notin acc.reads

\* C5: the device id the accessor stores is the resolved identifier followed
\* by '.remote.lscontrol.dk' when the identifier holds no '.', and the
\* identifier itself when it holds one.
C5_DeviceIdNormalized ==
    Resolved =>
        LET id == acc.resolved
            n == Len(id)
        IN  /\ HasDot(id) => acc.device = id
            /\ ~HasDot(id) =>
                  /\ Len(acc.device) = n + Len(DomainSuffix)
                  /\ SubSeq(acc.device, 1, n) = id
                  /\ SubSeq(acc.device, n + 1, Len(acc.device)) = DomainSuffix

\* an identifier taken from the configuration, without a domain
C5_Witness ==
    /\ Resolved
    /\ "device" \in acc.reads
    /\ acc.resolved = <<"c">>
    /\ acc.device = <<"c">> \o DomainSuffix

SingleReads == {"DatapointRawReadValue", "SetpointRawReadValue"}
ListReads == {"DatapointRawReadListValues", "SetpointRawReadListValues"}
AccessorOps ==
    {"Ping", "DatapointRawReadValues", "SetpointRawReadValues"} \cup SingleReads \cup ListReads

\* the call reached the session
Sent == rd.res.url # NoUrl

HasValues(doc) ==
    /\ doc.t = "dict" /\ "response" \in doc.keys
    /\ doc.response.t = "dict" /\ "data" \in doc.response.keys
    /\ \A i \in 1..Len(doc.response.data.items) : "value" \in doc.response.data.items[i].keys

ObjOf(item) == IF item.t = "tuple" THEN item.o ELSE 0

C8_InvokeResults ==
    /\ rd.op = "rpc_invoke" =>
          /\ rd.out = NullPtr => rd.res.ret = EmptyList /\ rd.res.frees = 0
          /\ rd.out # NullPtr /\ rd.out.json => rd.res.ret = rd.out.doc /\ rd.res.frees = 1
    /\ rd.op \in AccessorOps =>
          /\ rd.out = NullPtr =>
                /\ rd.res.response = EmptyList
                /\ rd.op # "Ping" => rd.res.values = EmptyList
          /\ rd.out # NullPtr /\ rd.out.json /\ rd.out.doc.t = "dict"
                /\ "response" \in rd.out.doc.keys =>
                /\ rd.res.ret = rd.out.doc
                /\ rd.res.frees = 1
                /\ rd.res.response = rd.out.doc.response

\* C9: nabtoStartup is called at most once in the process, however many
\* accessors are constructed.
C9_SingleStartup ==
    startups <= 1

\* C10: when the three identity fields resolve, the construction ends with
\* the accessor holding an open session with the interface definition bound.
C10_ConstructOpensSession ==
    Resolved =>
        /\ acc.st = "ready"
        /\ acc.session # 0
        /\ sess[acc.session].st = "open"

====
